---------------------------- MODULE Spec2Model ----------------------------
(***************************************************************************)
(* Model of src/components/AppLayout/Sidebar/index.tsx: the Sidebar's      *)
(* handleClick, and the browser utilities exported by the same file        *)
(* (blobToBase64String, base64StringToBlob, fileToDataUrl, downloadFile,   *)
(* injectViewerIFrame).                                                    *)
(*                                                                         *)
(* JavaScript strings are TLA+ strings; a character is a string of length  *)
(* one.  The operations share no state, so each group of operations has a  *)
(* specification of its own over the same variables:                       *)
(*   Spec          injectViewerIFrame on the page's document               *)
(*   SpecDownload  downloadFile on document.body                           *)
(*   SpecRead      fileToDataUrl / blobToBase64String and the platform's   *)
(*                 read events                                             *)
(*   SpecCodec     blobToBase64String followed by base64StringToBlob       *)
(*   SpecSidebar   Sidebar.handleClick and the cookie store                *)
(***************************************************************************)
EXTENDS Integers, Sequences, FiniteSets, TLC

VARIABLES
    locationHost,   \* window.location.host of the embedding page
    document,       \* element id -> sequence of the iframes appended to it
    lastInject,     \* the last injectViewerIFrame call: arguments, outcome
    body,           \* children of document.body
    downloads,      \* the downloadFile calls made, with the clicks of each
    calls,          \* the promises returned by fileToDataUrl / blobToBase64String
    cookiesState,   \* what loadFromCookie(COOKIES_KEY) returns
    dispatched      \* the handleClick calls made, with what each dispatched

vars == <<locationHost, document, lastInject, body, downloads, calls,
          cookiesState, dispatched>>

---------------------------------------------------------------------------
(* Bounds *)

MaxFrames == 2      \* iframes mounted in the document
MaxDownloads == 2   \* downloadFile calls recorded
MaxCalls == 2       \* promises in flight in SpecRead
MaxLen == 3         \* bytes of a blob in SpecCodec
MaxClicks == 4      \* handleClick calls

---------------------------------------------------------------------------
(* JavaScript strings *)

Ch(s, i) == SubSeq(s, i, i)

UpperCase == "ABCDEFGHIJKLMNOPQRSTUVWXYZ"
LowerCase == "abcdefghijklmnopqrstuvwxyz"
Digits == "0123456789"

CharsOf(s) == {Ch(s, i) : i \in 1..Len(s)}
UpperChars == CharsOf(UpperCase)

IndexIn(s, c) == CHOOSE i \in 1..Len(s) : Ch(s, i) = c

\* String.prototype.toLowerCase on one character
LowerChar(c) ==
    IF c \in UpperChars THEN Ch(LowerCase, IndexIn(UpperCase, c)) ELSE c

RECURSIVE toLowerCase(_)
toLowerCase(s) ==
    IF Len(s) = 0 THEN ""
    ELSE LowerChar(Ch(s, 1)) \o toLowerCase(SubSeq(s, 2, Len(s)))

\* String.prototype.includes: a case-sensitive substring search
includes(s, sub) ==
    \E i \in 1..(Len(s) - Len(sub) + 1) : SubSeq(s, i, i + Len(sub) - 1) = sub

startsWith(s, prefix) ==
    Len(s) >= Len(prefix) /\ SubSeq(s, 1, Len(prefix)) = prefix

\* the first index >= from of a character of delims, Len(s) + 1 when none
FirstOf(s, delims, from) ==
    LET hits == {i \in from..Len(s) : Ch(s, i) \in delims}
    IN  IF hits = {} THEN Len(s) + 1
        ELSE CHOOSE i \in hits : \A j \in hits : i <= j

---------------------------------------------------------------------------
(* new URL(fileUrl): the platform's URL parser, for absolute URLs without  *)
(* credentials or port.  The scheme is lower-cased; the host of a special  *)
(* scheme is lower-cased, the host of any other scheme is kept as written; *)
(* a URL without "//" after a non-special scheme has an empty host.        *)

SpecialSchemes == {"https", "http", "ws", "wss", "ftp"}
SchemeChars == CharsOf(UpperCase) \cup CharsOf(LowerCase) \cup CharsOf(Digits)
                   \cup {"+", "-", "."}
Letters == CharsOf(UpperCase) \cup CharsOf(LowerCase)

RECURSIVE SkipSlashes(_, _)
SkipSlashes(s, i) ==
    IF i <= Len(s) /\ Ch(s, i) \in {"/", "\\"} THEN SkipSlashes(s, i + 1) ELSE i

URL(href) ==
    LET colon == FirstOf(href, {":"}, 1)
        scheme == SubSeq(href, 1, colon - 1)
        schemeOk == /\ colon <= Len(href)
                    /\ colon > 1
                    /\ Ch(href, 1) \in Letters
                    /\ CharsOf(scheme) \subseteq SchemeChars
        protocol == toLowerCase(scheme)
        invalid == [ok |-> FALSE, protocol |-> "", host |-> ""]
    IN  IF ~schemeOk THEN invalid
        ELSE IF protocol \in SpecialSchemes
        THEN LET from == SkipSlashes(href, colon + 1)
                 to == FirstOf(href, {"/", "\\", "?", "#"}, from)
                 host == SubSeq(href, from, to - 1)
             IN  IF host = "" THEN invalid
                 ELSE [ok |-> TRUE, protocol |-> protocol,
                       host |-> toLowerCase(host)]
        ELSE IF SubSeq(href, colon + 1, colon + 2) = "//"
        THEN LET to == FirstOf(href, {"/", "?", "#"}, colon + 3)
             IN  [ok |-> TRUE, protocol |-> protocol,
                  host |-> SubSeq(href, colon + 3, to - 1)]
        ELSE [ok |-> TRUE, protocol |-> protocol, host |-> ""]

---------------------------------------------------------------------------
(* The page *)

ElementIds == {"viewer", "sidebar"}          \* ids that resolve to an element
DestinationIds == ElementIds \cup {"missing"}
PageHosts == {"example.com", ""}             \* "" : a page without a host

Titles == {"LIT"}
ClassNames == {"", "lit-frame"}              \* "" : no className given

FileUrls ==
    { "data:text/html,x",
      "DATA:text/html,x",
      "https://example.com/",
      "https://EXAMPLE.com/lit",
      "https://example.com/?next=data:x",
      "https://other.org/lit",
      "https://other.org/?next=data:x",
      "ipfs://EXAMPLE.com/lit",
      "other.org/lit" }

\* the outcomes of a call
Returned == "returned"
DataUrlError == "You can not inject an iFrame with a data url.  Try a regular https URL."
SameOriginError == "You cannot host a LIT on the same domain as the parent webpage.  This is because iFrames with the same origin have access to localstorage and cookies in the parent webpage which is unsafe"
InvalidUrlError == "TypeError: Invalid URL"
NullElementError == "TypeError: Cannot read properties of null (reading 'appendChild')"

SandboxPolicy == "allow-forms allow-scripts allow-popups  allow-modals allow-popups-to-escape-sandbox allow-same-origin"
AllowPolicy == "accelerometer; ambient-light-sensor; autoplay; battery; camera; display-capture; encrypted-media; fullscreen; geolocation; gyroscope; layout-animations; legacy-image-formats; magnetometer; microphone; midi; payment; picture-in-picture; publickey-credentials-get; sync-xhr; usb; vr; screen-wake-lock; web-share; xr-spatial-tracking"

\* document.createElement('iframe')
NewIFrame ==
    [src |-> "", title |-> "", sandbox |-> "", loading |-> "", allow |-> "",
     className |-> ""]

FrameCount(doc) ==
    LET RECURSIVE Sum(_)
        Sum(ids) == IF ids = {} THEN 0
                    ELSE LET e == CHOOSE x \in ids : TRUE
                         IN  Len(doc[e]) + Sum(ids \ {e})
    IN  Sum(DOMAIN doc)

AllFrames(doc) == UNION {{doc[e][i] : i \in 1..Len(doc[e])} : e \in DOMAIN doc}

\* variant: the data-URL guard left out
IsDataUrlNever(fileUrl) == FALSE
\* fileUrl.includes('data:')
IsDataUrl(fileUrl) == includes(fileUrl, "data:")

\* url.host.toLowerCase() === window.location.host.toLowerCase()
IsSameHost(urlHost, pageHost) == toLowerCase(urlHost) = toLowerCase(pageHost)

\* the iframe as lines 252-262 build it
BuildIFrame(title, fileUrl, className) ==
    [NewIFrame EXCEPT !.src = fileUrl,
                      !.title = title,
                      !.sandbox = SandboxPolicy,
                      !.loading = "lazy",
                      !.allow = AllowPolicy,
                      !.className = IF className # "" THEN className ELSE @]

\* null, as document.getElementById returns it for an unknown id
Null == "null"
\* variant: an unknown id falls back to some element of the page
getElementByIdOrFirst(doc, destinationId) ==
    IF destinationId \in DOMAIN doc THEN destinationId
    ELSE CHOOSE e \in DOMAIN doc : TRUE
\* document.getElementById(destinationId)
getElementById(doc, destinationId) ==
    IF destinationId \in DOMAIN doc THEN destinationId ELSE Null

\* the two guards and the parse, tabulated over the inputs of the model
DataUrlCheck == [fileUrl \in FileUrls |-> IsDataUrl(fileUrl)]
ParsedUrl == [fileUrl \in FileUrls |-> URL(fileUrl)]
SameHostCheck ==
    [fileUrl \in FileUrls |->
        [pageHost \in PageHosts |-> IsSameHost(ParsedUrl[fileUrl].host, pageHost)]]

\* injectViewerIFrame({destinationId, title, fileUrl, className}) on document
\* doc of a page whose host is pageHost: what it threw and the document after
injectViewerIFrame(doc, pageHost, destinationId, title, fileUrl, className) ==
    IF DataUrlCheck[fileUrl]
    THEN [threw |-> DataUrlError, document |-> doc]
    ELSE LET url == ParsedUrl[fileUrl] IN
         IF ~url.ok
         THEN [threw |-> InvalidUrlError, document |-> doc]
         ELSE IF SameHostCheck[fileUrl][pageHost]
         THEN [threw |-> SameOriginError, document |-> doc]
         ELSE LET iframe == BuildIFrame(title, fileUrl, className)
                  dest == getElementById(doc, destinationId)
              IN  IF dest = Null
                  THEN [threw |-> NullElementError, document |-> doc]
                  ELSE [threw |-> Returned,
                        document |-> [doc EXCEPT ![dest] = Append(@, iframe)]]

NoCall ==
    [destinationId |-> "", title |-> "", fileUrl |-> "", className |-> "",
     threw |-> "", before |-> [e \in ElementIds |-> <<>>]]

Inject(destinationId, title, fileUrl, className) ==
    LET r == injectViewerIFrame(document, locationHost, destinationId, title,
                                fileUrl, className)
    IN  /\ r.threw = Returned => FrameCount(document) < MaxFrames
        /\ document' = r.document
        /\ lastInject' = [destinationId |-> destinationId, title |-> title,
                          fileUrl |-> fileUrl, className |-> className,
                          threw |-> r.threw, before |-> document]
        /\ UNCHANGED <<locationHost, body, downloads, calls, cookiesState,
                       dispatched>>


---------------------------------------------------------------------------
(* The codec dependency (uint8arrays over the multibase RFC 4648 codecs).  *)
(* A byte is 0..255; a Uint8Array is a sequence of bytes.                   *)

Base64Chars ==
    "ABCDEFGHIJKLMNOPQRSTUVWXYZabcdefghijklmnopqrstuvwxyz0123456789+/"
Base64UrlChars ==
    "ABCDEFGHIJKLMNOPQRSTUVWXYZabcdefghijklmnopqrstuvwxyz0123456789-_"

\* the registry of encodings: multibase prefix, alphabet, padding
Bases(encoding) ==
    CASE encoding = "base64" ->
            [prefix |-> "m", alphabet |-> Base64Chars, pad |-> FALSE]
      [] encoding = "base64pad" ->
            [prefix |-> "M", alphabet |-> Base64Chars, pad |-> TRUE]
      [] encoding = "base64url" ->
            [prefix |-> "u", alphabet |-> Base64UrlChars, pad |-> FALSE]
      [] encoding = "base64urlpad" ->
            [prefix |-> "U", alphabet |-> Base64UrlChars, pad |-> TRUE]

Pow2(n) == 2 ^ n

\* emit one character for every 6 bits the buffer holds beyond 6
RECURSIVE Drain(_, _, _)
Drain(buffer, bits, alphabet) ==
    IF bits > 6
    THEN LET left == bits - 6
             c == Ch(alphabet, ((buffer \div Pow2(left)) % 64) + 1)
             r == Drain(buffer % Pow2(left), left, alphabet)
         IN  [out |-> c \o r.out, buffer |-> r.buffer, bits |-> r.bits]
    ELSE [out |-> "", buffer |-> buffer, bits |-> bits]

RECURSIVE EncodeFrom(_, _, _, _, _)
EncodeFrom(data, i, buffer, bits, alphabet) ==
    IF i > Len(data)
    THEN IF bits > 0
         THEN Ch(alphabet, ((buffer * Pow2(6 - bits)) % 64) + 1)
         ELSE ""
    ELSE LET d == Drain(buffer * 256 + data[i], bits + 8, alphabet)
         IN  d.out \o EncodeFrom(data, i + 1, d.buffer, d.bits, alphabet)

RECURSIVE PadTo(_)
PadTo(out) == IF (Len(out) * 6) % 8 # 0 THEN PadTo(out \o "=") ELSE out

BaseEncode(data, base) ==
    LET out == EncodeFrom(data, 1, 0, 0, base.alphabet)
    IN  IF base.pad THEN PadTo(out) ELSE out

RECURSIVE StripPad(_)
StripPad(text) ==
    IF Len(text) > 0 /\ Ch(text, Len(text)) = "="
    THEN StripPad(SubSeq(text, 1, Len(text) - 1))
    ELSE text

\* decode text[i..]: fails on a character outside the alphabet and on
\* left-over bits that are not zero
RECURSIVE DecodeFrom(_, _, _, _, _)
DecodeFrom(text, i, buffer, bits, alphabet) ==
    IF i > Len(text)
    THEN [ok |-> ~(bits >= 6 \/ (buffer * Pow2(8 - bits)) % 256 # 0),
          bytes |-> <<>>]
    ELSE IF Ch(text, i) \notin CharsOf(alphabet)
    THEN [ok |-> FALSE, bytes |-> <<>>]
    ELSE LET b == buffer * 64 + (IndexIn(alphabet, Ch(text, i)) - 1)
             n == bits + 6
         IN  IF n >= 8
             THEN LET r == DecodeFrom(text, i + 1, b % Pow2(n - 8), n - 8,
                                      alphabet)
                  IN  [ok |-> r.ok,
                       bytes |-> <<(b \div Pow2(n - 8)) % 256>> \o r.bytes]
             ELSE DecodeFrom(text, i + 1, b, n, alphabet)

BaseDecode(text, base) == DecodeFrom(StripPad(text), 1, 0, 0, base.alphabet)

\* uint8arrayToString(uint8array, encoding): the multibase text without its
\* prefix
uint8arrayToString(uint8array, encoding) ==
    LET base == Bases(encoding)
        multibase == base.prefix \o BaseEncode(uint8array, base)
    IN  SubSeq(multibase, 2, Len(multibase))

\* uint8arrayFromString(str, encoding): [ok, bytes]; ~ok is a thrown error
uint8arrayFromString(str, encoding) ==
    LET base == Bases(encoding)
        multibase == base.prefix \o str
    IN  BaseDecode(SubSeq(multibase, 2, Len(multibase)), base)

---------------------------------------------------------------------------
(* JavaScript values held by a promise or a FileReader *)

JSNull == [type |-> "null", str |-> ""]
JSString(s) == [type |-> "string", str |-> s]
JSError(name) == [type |-> "error", str |-> name]

---------------------------------------------------------------------------
(* blobToBase64String, base64StringToBlob, fileToDataUrl *)

Bytes == {0, 104, 251, 255}

RECURSIVE ByteSeqs(_)
ByteSeqs(n) ==
    IF n = 0 THEN {<<>>}
    ELSE LET shorter == ByteSeqs(n - 1)
         IN  shorter \cup {Append(s, b) : s \in {t \in shorter : Len(t) = n - 1},
                                          b \in Bytes}

ReadContents == {<<>>, <<104, 105>>}    \* an empty file, and "hi"
FileType == "text/plain"

\* the encoding each direction names
EncodingWrong == "base64"      \* variant: the plain base64 alphabet
EncodingOfBlobToBase64String == "base64urlpad"
EncodingOfBase64StringToBlob == "base64urlpad"

NoPromise ==
    [fn |-> "", content |-> <<>>, io |-> "idle", pc |-> "",
     result |-> JSNull, promise |-> "", value |-> JSNull, settled |-> 0,
     decoded |-> [done |-> FALSE, ok |-> FALSE, bytes |-> <<>>]]

\* a slot is free when nothing was called on it or its promise has settled
Free(i) == calls[i].fn = "" \/ calls[i].promise # "pending"

\* the promise's resolve / reject functions: only the first call settles it
Resolve(call, v) ==
    IF call.promise = "pending"
    THEN [call EXCEPT !.promise = "fulfilled", !.value = v, !.settled = @ + 1]
    ELSE [call EXCEPT !.settled = @ + 1]
Reject(call, v) ==
    IF call.promise = "pending"
    THEN [call EXCEPT !.promise = "rejected", !.value = v, !.settled = @ + 1]
    ELSE [call EXCEPT !.settled = @ + 1]

\* FileReader.readAsDataURL's result for a file that was read in full
DataUrlOf(content) ==
    "data:" \o FileType \o ";base64," \o BaseEncode(content, Bases("base64pad"))

\* reader.onloadend = () => { resolve(reader.result) }
OnLoadEnd(call) == Resolve(call, call.result)

UnchangedButCalls ==
    UNCHANGED <<locationHost, document, lastInject, body, downloads,
                cookiesState, dispatched>>

\* fileToDataUrl(file): a new promise, a new reader, the read started
CallFileToDataUrl(i, content) ==
    /\ Free(i)
    /\ calls' = [calls EXCEPT ![i] =
                    [NoPromise EXCEPT !.fn = "fileToDataUrl",
                                      !.content = content,
                                      !.io = "reading",
                                      !.promise = "pending"]]
    /\ UnchangedButCalls

\* the platform completes the read: result set, load then loadend fired
FileReadLoad(i) ==
    /\ calls[i].fn = "fileToDataUrl"
    /\ calls[i].io = "reading"
    /\ calls' = [calls EXCEPT ![i] =
                    OnLoadEnd([calls[i] EXCEPT
                                  !.io = "read",
                                  !.result = JSString(DataUrlOf(calls[i].content))])]
    /\ UnchangedButCalls

\* the platform fails the read: result null, error then loadend fired
FileReadError(i) ==
    /\ calls[i].fn = "fileToDataUrl"
    /\ calls[i].io = "reading"
    /\ calls' = [calls EXCEPT ![i] =
                    OnLoadEnd([calls[i] EXCEPT !.io = "failed",
                                               !.result = JSNull])]
    /\ UnchangedButCalls

\* blobToBase64String(blob): runs to the await of blob.arrayBuffer()
CallBlobToBase64String(i, content) ==
    /\ Free(i)
    /\ calls' = [calls EXCEPT ![i] =
                    [NoPromise EXCEPT !.fn = "blobToBase64String",
                                      !.content = content,
                                      !.io = "reading",
                                      !.pc = "await",
                                      !.promise = "pending"]]
    /\ UnchangedButCalls

\* the platform settles blob.arrayBuffer()
ArrayBufferFulfilled(i) ==
    /\ calls[i].fn = "blobToBase64String"
    /\ calls[i].io = "reading"
    /\ calls' = [calls EXCEPT ![i].io = "read"]
    /\ UnchangedButCalls

ArrayBufferRejected(i) ==
    /\ calls[i].fn = "blobToBase64String"
    /\ calls[i].io = "reading"
    /\ calls' = [calls EXCEPT ![i].io = "failed"]
    /\ UnchangedButCalls

\* the async function resumes after the await: it returns the encoding of
\* the buffer, or the rejection of arrayBuffer() propagates
ResumeBlobToBase64String(i) ==
    /\ calls[i].fn = "blobToBase64String"
    /\ calls[i].pc = "await"
    /\ calls[i].io \in {"read", "failed"}
    /\ calls' = [calls EXCEPT ![i] =
                    IF calls[i].io = "read"
                    THEN Resolve([calls[i] EXCEPT !.pc = "done"],
                                 JSString(uint8arrayToString(calls[i].content,
                                              EncodingOfBlobToBase64String)))
                    ELSE Reject([calls[i] EXCEPT !.pc = "done"],
                                JSError("NotReadableError"))]
    /\ UnchangedButCalls

\* base64StringToBlob(base64String): the blob's bytes, or a thrown error
base64StringToBlob(base64String) ==
    LET r == uint8arrayFromString(base64String, EncodingOfBase64StringToBlob)
    IN  [done |-> TRUE, ok |-> r.ok, bytes |-> IF r.ok THEN r.bytes ELSE <<>>]

\* the caller hands the resolved value of blobToBase64String back
Base64StringToBlob(i) ==
    /\ calls[i].fn = "blobToBase64String"
    /\ calls[i].promise = "fulfilled"
    /\ calls[i].value.type = "string"
    /\ ~calls[i].decoded.done
    /\ calls' = [calls EXCEPT
                    ![i].decoded = base64StringToBlob(calls[i].value.str)]
    /\ UnchangedButCalls


---------------------------------------------------------------------------
(* downloadFile *)

Filenames == {"a.txt", "b.bin"}
MimeTypes == {"text/plain", "application/octet-stream"}
DownloadData == {<<>>, <<104, 105>>}

Node(tag, id) ==
    [tag |-> tag, id |-> id, href |-> "", download |-> "", display |-> ""]

InitialBody == <<Node("div", "viewer"), Node("div", "sidebar")>>

Contains(children, node) == \E i \in 1..Len(children) : children[i] = node

\* parent.appendChild(node)
appendChild(children, node) == Append(children, node)

\* variant: the link is left in the body
removeChildSkipped(children, node) == children
\* parent.removeChild(node): the children without the node
removeChild(children, node) ==
    IF Contains(children, node)
    THEN LET i == CHOOSE k \in 1..Len(children) :
                     /\ children[k] = node
                     /\ \A j \in 1..(k - 1) : children[j] # node
         IN  SubSeq(children, 1, i - 1) \o SubSeq(children, i + 1, Len(children))
    ELSE children

\* downloadFile({filename, data, mimetype}) on the body's children: the
\* clicks the platform received, each with whether its target was in the
\* document, and the children after the call
downloadFile(children, filename, data, mimetype) ==
    LET element ==
            [Node("a", "") EXCEPT
                !.href = "data:" \o mimetype \o ";base64,"
                             \o uint8arrayToString(data, "base64"),
                !.download = filename,
                !.display = "none"]
        appended == appendChild(children, element)
        click == [target |-> element, connected |-> Contains(appended, element)]
        removed == removeChild(appended, element)
    IN  [clicks |-> <<click>>, body |-> removed]

Download(filename, data, mimetype) ==
    LET r == downloadFile(body, filename, data, mimetype)
    IN  /\ Len(downloads) < MaxDownloads
        /\ body' = r.body
        /\ downloads' = Append(downloads,
                               [filename |-> filename, data |-> data,
                                mimetype |-> mimetype, before |-> body,
                                clicks |-> r.clicks])
        /\ UNCHANGED <<locationHost, document, lastInject, calls,
                       cookiesState, dispatched>>

---------------------------------------------------------------------------
(* Sidebar.handleClick *)

BEAMER == "COOKIE_IDS.BEAMER"
NoKey == "undefined"

\* loadFromCookie's results: nothing stored, or the stored banner state
NoCookies == [stored |-> FALSE, acceptedSupportAndUpdates |-> FALSE]
CookieStates ==
    {NoCookies} \cup
    {[stored |-> TRUE, acceptedSupportAndUpdates |-> a] : a \in BOOLEAN}

openCookieBanner(cookieBannerOpen, key) ==
    [type |-> "openCookieBanner", cookieBannerOpen |-> cookieBannerOpen,
     key |-> key]

\* variant: the return after the first dispatch left out
handleClickNoReturn(cookies) ==
    (IF ~cookies.stored THEN <<openCookieBanner(TRUE, NoKey)>> ELSE <<>>)
    \o (IF ~cookies.acceptedSupportAndUpdates
        THEN <<openCookieBanner(TRUE, BEAMER)>> ELSE <<>>)
\* handleClick reading cookies: the actions it dispatches, in order
handleClick(cookies) ==
    IF ~cookies.stored
    THEN <<openCookieBanner(TRUE, NoKey)>>
    ELSE IF ~cookies.acceptedSupportAndUpdates
    THEN <<openCookieBanner(TRUE, BEAMER)>>
    ELSE <<>>

HandleClick ==
    /\ Len(dispatched) < MaxClicks
    /\ dispatched' = Append(dispatched,
                            [cookies |-> cookiesState,
                             actions |-> handleClick(cookiesState)])
    /\ UNCHANGED <<locationHost, document, lastInject, body, downloads,
                   calls, cookiesState>>

\* the cookie banner, outside this file, stores the user's choice
SaveCookies(state) ==
    /\ state.stored
    /\ cookiesState # state
    /\ cookiesState' = state
    /\ UNCHANGED <<locationHost, document, lastInject, body, downloads,
                   calls, dispatched>>

\* the cookie expires or is cleared
ClearCookies ==
    /\ cookiesState.stored
    /\ cookiesState' = NoCookies
    /\ UNCHANGED <<locationHost, document, lastInject, body, downloads,
                   calls, dispatched>>

---------------------------------------------------------------------------
(* Specifications *)

Init ==
    /\ locationHost \in PageHosts
    /\ document = [e \in ElementIds |-> <<>>]
    /\ lastInject = NoCall
    /\ body = InitialBody
    /\ downloads = <<>>
    /\ calls = [i \in 1..MaxCalls |-> NoPromise]
    /\ cookiesState = NoCookies
    /\ dispatched = <<>>

Next ==
    \E destinationId \in DestinationIds, title \in Titles,
       fileUrl \in FileUrls, className \in ClassNames :
        Inject(destinationId, title, fileUrl, className)

Spec == Init /\ [][Next]_vars

NextDownload ==
    \E filename \in Filenames, data \in DownloadData, mimetype \in MimeTypes :
        Download(filename, data, mimetype)

SpecDownload == Init /\ [][NextDownload]_vars

NextRead ==
    \E i \in 1..MaxCalls :
        \/ \E content \in ReadContents : CallFileToDataUrl(i, content)
        \/ FileReadLoad(i)
        \/ FileReadError(i)
        \/ \E content \in ReadContents : CallBlobToBase64String(i, content)
        \/ ArrayBufferFulfilled(i)
        \/ ArrayBufferRejected(i)
        \/ ResumeBlobToBase64String(i)

SpecRead == Init /\ [][NextRead]_vars

NextCodec ==
    \/ \E content \in ByteSeqs(MaxLen) : CallBlobToBase64String(1, content)
    \/ ArrayBufferFulfilled(1)
    \/ ArrayBufferRejected(1)
    \/ ResumeBlobToBase64String(1)
    \/ Base64StringToBlob(1)

SpecCodec == Init /\ [][NextCodec]_vars

NextSidebar ==
    \/ HandleClick
    \/ \E state \in CookieStates : SaveCookies(state)
    \/ ClearCookies

SpecSidebar == Init /\ [][NextSidebar]_vars

---------------------------------------------------------------------------
(* Properties of injectViewerIFrame (specification Spec) *)

Called == lastInject.threw # ""

\* the iframe a successful call appends
ExpectedFrame ==
    [src |-> lastInject.fileUrl, title |-> lastInject.title,
     sandbox |-> SandboxPolicy, loading |-> "lazy", allow |-> AllowPolicy,
     className |-> lastInject.className]

\* C1: a call whose fileUrl has the form "data:text/html,..." fails with
\* the data-URL rejection whatever the other arguments and the page's host
\* are, and leaves the document as it was before the call.
C1_DataUrlRejected ==
    (Called /\ startsWith(lastInject.fileUrl, "data:text/html,"))
        => /\ lastInject.threw = DataUrlError
           /\ document = lastInject.before

\* a data URL was refused for a destination that does not exist, on a page
\* without a host
C1_Witness ==
    /\ lastInject.fileUrl = "data:text/html,x"
    /\ lastInject.destinationId = "missing"
    /\ lastInject.className = "lit-frame"
    /\ locationHost = ""
    /\ lastInject.threw = DataUrlError
    /\ FrameCount(document) > 0

\* C2: no mounted iframe has a source whose URL scheme is data, the scheme
\* being compared case-insensitively as the URL parser does.
C2_NoDataUriMounted ==
    \A frame \in AllFrames(document) : URL(frame.src).protocol # "data"

\* C3: a call whose fileUrl is not a data URI and whose host equals the
\* page's host, compared case-insensitively, fails with the same-origin
\* rejection and leaves the document as it was.
C3_SameHostRejected ==
    LET url == URL(lastInject.fileUrl)
    IN  (/\ Called
         /\ url.ok
         /\ url.protocol # "data"
         /\ toLowerCase(url.host) = toLowerCase(locationHost))
            => /\ lastInject.threw = SameOriginError
               /\ document = lastInject.before

\* C4: a call with a valid https URL whose host differs from the page's
\* host and a destinationId that resolves to an element throws nothing and
\* appends exactly one iframe with the given source, title and class to
\* that element, every other element keeping its children.
C4_CrossOriginMounted ==
    LET url == URL(lastInject.fileUrl)
    IN  (/\ Called
         /\ url.ok
         /\ url.protocol = "https"
         /\ url.host # toLowerCase(locationHost)
         /\ lastInject.destinationId \in ElementIds)
            => /\ lastInject.threw = Returned
               /\ document =
                    [lastInject.before EXCEPT
                        ![lastInject.destinationId] = Append(@, ExpectedFrame)]

\* C6: a call whose fileUrl passes both guards and whose destinationId
\* resolves to no element fails with an error and leaves the document as it
\* was: no iframe is attached to any element.
C6_MissingDestinationFails ==
    LET url == URL(lastInject.fileUrl)
    IN  (/\ Called
         /\ ~includes(lastInject.fileUrl, "data:")
         /\ url.ok
         /\ toLowerCase(url.host) # toLowerCase(locationHost)
         /\ lastInject.destinationId \notin ElementIds)
            => /\ lastInject.threw = NullElementError
               /\ document = lastInject.before

\* a cross-origin https URL was refused for a missing destination on a page
\* that already holds a mounted frame
C6_Witness ==
    /\ lastInject.fileUrl = "https://other.org/lit"
    /\ lastInject.destinationId = "missing"
    /\ lastInject.threw = NullElementError
    /\ FrameCount(document) > 0

---------------------------------------------------------------------------
(* Properties of downloadFile (specification SpecDownload) *)

\* C7: every downloadFile call clicks its own link exactly once while the
\* link is in the body, and after the call the body's children are those
\* it had before the call.
C7_DownloadLeavesBody ==
    /\ \A k \in 1..Len(downloads) :
          LET d == downloads[k]
          IN  /\ Len(d.clicks) = 1
              /\ d.clicks[1].connected
              /\ d.clicks[1].target.tag = "a"
              /\ d.clicks[1].target.download = d.filename
              /\ ~Contains(body, d.clicks[1].target)
              /\ d.before = InitialBody
    /\ body = InitialBody

\* two downloads were made
C7_Witness ==
    /\ Len(downloads) >= 2
    /\ downloads[1].clicks[1].target.href = "data:text/plain;base64,aGk"
    /\ body = InitialBody

---------------------------------------------------------------------------
(* Properties of the promises (specifications SpecRead and SpecCodec) *)

Settled(call) == call.promise \in {"fulfilled", "rejected"}

\* the value a completed read of the call's content resolves to
FullResult(call) ==
    IF call.fn = "fileToDataUrl"
    THEN JSString(DataUrlOf(call.content))
    ELSE JSString(uint8arrayToString(call.content, "base64urlpad"))

\* C5: the promise of fileToDataUrl is rejected, and not fulfilled, when
\* the read failed, and is fulfilled with a text beginning with "data:"
\* when the read succeeded.
C5_FileReadFailureRejects ==
    \A i \in 1..MaxCalls :
        (calls[i].fn = "fileToDataUrl" /\ calls[i].io # "reading")
            => /\ calls[i].io = "failed" => calls[i].promise = "rejected"
               /\ calls[i].io = "read" =>
                     /\ calls[i].promise = "fulfilled"
                     /\ calls[i].value.type = "string"
                     /\ startsWith(calls[i].value.str, "data:")

\* C8: a settled promise of either function was settled by exactly one call
\* of resolve or reject: fulfilled with the full result of a completed
\* read, or rejected after a failed one.
C8_SingleResolution ==
    \A i \in 1..MaxCalls :
        Settled(calls[i])
            => /\ calls[i].settled = 1
               /\ calls[i].promise = "fulfilled"
                     => (calls[i].io = "read" /\ calls[i].value = FullResult(calls[i]))
               /\ calls[i].promise = "rejected" => calls[i].io = "failed"

\* C9: base64StringToBlob applied to the resolved value of
\* blobToBase64String(blob) yields a blob with the content of blob.
C9_BlobRoundTrip ==
    \A i \in 1..MaxCalls :
        calls[i].decoded.done
            => /\ calls[i].decoded.ok
               /\ calls[i].decoded.bytes = calls[i].content

\* the blob with empty content made the round trip
C9_Witness ==
    /\ calls[1].decoded.done
    /\ calls[1].content = <<>>
    /\ calls[1].value = JSString("")

---------------------------------------------------------------------------
(* Properties of Sidebar.handleClick (specification SpecSidebar) *)

\* C10: a handleClick call dispatches at most one openCookieBanner action,
\* chosen by the stored cookie state, and leaves the cookie state as it is.
C10_HandleClickDispatch ==
    [][Len(dispatched') = Len(dispatched) + 1
        => LET click == dispatched'[Len(dispatched')]
           IN  /\ cookiesState' = cookiesState
               /\ click.cookies = cookiesState
               /\ Len(click.actions) <= 1
               /\ ~cookiesState.stored
                    => click.actions = <<[type |-> "openCookieBanner",
                                          cookieBannerOpen |-> TRUE,
                                          key |-> NoKey]>>
               /\ (cookiesState.stored /\ ~cookiesState.acceptedSupportAndUpdates)
                    => click.actions = <<[type |-> "openCookieBanner",
                                          cookieBannerOpen |-> TRUE,
                                          key |-> BEAMER]>>
               /\ (cookiesState.stored /\ cookiesState.acceptedSupportAndUpdates)
                    => click.actions = <<>>]_vars

\* all three cookie states were clicked on
C10_Witness ==
    /\ \E k \in 1..Len(dispatched) : ~dispatched[k].cookies.stored
    /\ \E k \in 1..Len(dispatched) :
          /\ dispatched[k].cookies.stored
          /\ ~dispatched[k].cookies.acceptedSupportAndUpdates
          /\ dispatched[k].actions # <<>>
    /\ \E k \in 1..Len(dispatched) :
          /\ dispatched[k].cookies.stored
          /\ dispatched[k].cookies.acceptedSupportAndUpdates
          /\ dispatched[k].actions = <<>>

=============================================================================
